---- MODULE Spec2Model ----
(***************************************************************************)
(* Model of rcon-bot.js: the tailer of the Minecraft latest.log            *)
(* (watchMinecraftLog, setupFileReading, checkForChanges, the fs.watch     *)
(* callbacks, the read stream and its readline interface), the line        *)
(* handler with chatRegex, and the dispatch of a chat request              *)
(* (handleMinecraftChat, askGemini, sendRconMessage).                      *)
(*                                                                         *)
(* The file is a sequence of characters.  The fixed prefix of a log        *)
(* record (timestamp, thread and source tags) is one character, Hdr.       *)
(* Offsets and sizes count characters of that sequence.                    *)
(***************************************************************************)
EXTENDS Integers, Sequences, FiniteSets, TLC

\* ------------------------------------------------------------------ bounds
MaxEvents == 2       \* events of the environment in one run: appends, truncations,
                     \* outages of the path, 'rename' notifications, watcher errors
MaxChains == 2       \* pending timers plus active stream of one tailer
MaxRestarts == 1     \* 'error' events of the watcher
MaxCalls == 2        \* direct calls of handleMinecraftChat
MaxTicks == 2        \* firings of the broadcast interval

\* ------------------------------------------------------------------ text
NL == "\n"
Hdr == "H"           \* "[01Oct2024 10:00:00.000] [Server thread/INFO] [net.minecraft.server.MinecraftServer/]: "
WordChars == {"A", "a", "s", "k", "q", "x"}
Spaces == {" "}
AskLine == <<Hdr, "<", "A", ">", " ", "!", "a", "s", "k", " ", "q">>
Trigger == <<"!", "a", "s", "k">>
FallbackText == <<"Sorry, I cannot answer your question at this time.">>
Answers == {<<"4">>}
AutoMessage == <<"Support Our Server!">>

NoMatch == [matched |-> FALSE]

Min(a, b) == IF a < b THEN a ELSE b

\* the index of the first character of s, from index i on, that is not a word
\* character (Len(s) + 1 when there is none)
RECURSIVE WordEnd(_, _)
WordEnd(s, i) ==
    IF i > Len(s) THEN i
    ELSE IF s[i] \in WordChars THEN WordEnd(s, i + 1)
    ELSE i

\* String.prototype.trim
RECURSIVE TrimLeft(_)
TrimLeft(s) ==
    IF s # <<>> /\ Head(s) \in Spaces THEN TrimLeft(Tail(s)) ELSE s

RECURSIVE TrimRight(_)
TrimRight(s) ==
    IF s # <<>> /\ s[Len(s)] \in Spaces THEN TrimRight(SubSeq(s, 1, Len(s) - 1)) ELSE s

Trim(s) == TrimRight(TrimLeft(s))

\* line.match(chatRegex): ^Hdr<(\w+)> (!ask\s*.+)$
chatRegex(line) ==
    LET k == WordEnd(line, 3) IN
    IF /\ Len(line) >= 2
       /\ line[1] = Hdr
       /\ line[2] = "<"
       /\ k >= 4
       /\ Len(line) >= k + 6
       /\ line[k] = ">"
       /\ line[k + 1] = " "
       /\ SubSeq(line, k + 2, k + 5) = Trigger
    THEN [matched |-> TRUE,
          player |-> SubSeq(line, 3, k - 1),
          command |-> SubSeq(line, k + 2, Len(line))]
    ELSE NoMatch

\* the first index i of s with pat at s[i..], 0 when pat does not occur in s
RECURSIVE IndexOf(_, _, _)
IndexOf(s, pat, i) ==
    IF i + Len(pat) - 1 > Len(s) THEN 0
    ELSE IF SubSeq(s, i, i + Len(pat) - 1) = pat THEN i
    ELSE IndexOf(s, pat, i + 1)

\* String.prototype.replace(pat, ''): the first occurrence of pat is removed
RemoveFirst(s, pat) ==
    LET i == IndexOf(s, pat, 1) IN
    IF i = 0 THEN s
    ELSE SubSeq(s, 1, i - 1) \o SubSeq(s, i + Len(pat), Len(s))

\* command.replace('!ask', '').trim()
Question(command) == Trim(RemoveFirst(command, Trigger))

\* mutant: the reply is sent without the address of the player
FormatResponseBare(player, response) == response

\* `[To ${player}] ${response}`
FormatResponse(player, response) == <<"[To ">> \o player \o <<"] ">> \o response

\* ------------------------------------------------------------------ state
VARIABLES
    file,        \* content of latest.log
    exists,      \* whether the path can be stat'ed and opened
    startSize,   \* size of the file when the first tailer was started
    tailers,     \* the closures created by watchMinecraftLog, in creation order
    restarts,    \* pending timers of watcher.on('error') (5000 ms, watchMinecraftLog)
    ncyc,        \* number of read cycles (runs of setupFileReading) so far
    delivered,   \* the 'line' events of all readline interfaces, in order
    chats,       \* the calls of handleMinecraftChat, in the order they were made
    proc,        \* "running" or "exited"
    auto,        \* the broadcast: whether the interval of main is set, and the
                 \* calls of sendRconMessage its callback made, in order
    env          \* how many appends, truncations, outages, renames, watcher errors, direct calls happened

vars == <<file, exists, startSize, tailers, restarts, ncyc, delivered, chats, proc, auto, env>>

HighWaterMark == 65536   \* default chunk size of fs.createReadStream

NoStream == [live |-> FALSE, start |-> 0, pos |-> 0, opened |-> FALSE, buf |-> <<>>, cyc |-> 0]

\* fs.createReadStream(logPath, {start}) with its readline interface
NewStream(start, cyc) ==
    [live |-> TRUE, start |-> start, pos |-> start, opened |-> FALSE, buf |-> <<>>, cyc |-> cyc]

\* history of a tailer: the read cycle started by the last truncation that
\* checkForChanges detected, and the content of the file then
NoTrunc == [cyc |-> 0, content |-> <<>>]

\* history of a tailer: the number of lines delivered when the last 'rename'
\* notification was handled
NotRenamed == [seen |-> FALSE, n |-> 0]

Chains(tl) ==
    tl.check1 + tl.check5 + tl.setup1 + (IF tl.fileStream.live THEN 1 ELSE 0)

\* ------------------------------------------------------------------ readline
\* readline's handling of one chunk: the characters are added to the line
\* buffer cur (whose first character is at offset at of the file), every
\* newline completes a line, what follows the last newline stays buffered
RECURSIVE Feed(_, _, _, _)
Feed(lines, cur, at, data) ==
    IF data = <<>> THEN [lines |-> lines, rest |-> cur]
    ELSE IF Head(data) = NL
         THEN Feed(Append(lines, [line |-> cur, at |-> at]), <<>>, at + Len(cur) + 1, Tail(data))
         ELSE Feed(lines, Append(cur, Head(data)), at, Tail(data))

\* readline at the end of its input: a non-empty line buffer is emitted as a line
Flush(cur, at) ==
    IF cur # <<>> THEN <<[line |-> cur, at |-> at]>> ELSE <<>>

\* ------------------------------------------------------------------ dispatch
\* handleMinecraftChat up to its first await: askGemini has issued
\* model.generateContent(question)
StartChat(question, player, cyc, at) ==
    [player |-> player, question |-> question, pc |-> "gemini",
     apiFailed |-> FALSE, rconFailed |-> FALSE, sends |-> <<>>, said |-> <<>>,
     outcome |-> "pending", cyc |-> cyc, at |-> at]

\* sendRconMessage(message) up to its first await: Rcon.connect is issued
sendRconMessage(c, message) ==
    [c EXCEPT !.sends = Append(@, message), !.pc = "connect"]

\* handleMinecraftChat after askGemini has returned response
AfterAskGemini(c, response) ==
    sendRconMessage(c, FormatResponse(c.player, response))

\* askGemini when model.generateContent resolves with answer
askGeminiOk(c, answer) == AfterAskGemini(c, answer)

\* mutant: the catch of askGemini rethrows instead of returning the fallback
\* text, and the catch of handleMinecraftChat logs and returns
askGeminiRethrows(c) ==
    [c EXCEPT !.apiFailed = TRUE, !.pc = "done", !.outcome = "resolved"]

\* askGemini when model.generateContent rejects: the catch returns the fallback text
askGeminiCatch(c) == AfterAskGemini([c EXCEPT !.apiFailed = TRUE], FallbackText)

\* the catch of sendRconMessage rethrows, the catch of handleMinecraftChat
\* logs and returns
handleChatCatch(c) ==
    [c EXCEPT !.rconFailed = TRUE, !.pc = "done", !.outcome = "resolved"]

\* the callback of setInterval up to the first await of sendRconMessage
autoTick(a) ==
    [a EXCEPT !.sends = Append(@, sendRconMessage(
        [pc |-> "tick", sends |-> <<>>, said |-> <<>>, failed |-> FALSE, logged |-> FALSE],
        AutoMessage))]

\* mutant: the handler of a failed broadcast clears the interval
autoCatchClears(a, i) ==
    [a EXCEPT !.interval = FALSE,
              !.sends[i].pc = "done", !.sends[i].failed = TRUE, !.sends[i].logged = TRUE]

\* sendRconMessage(autoMessage) rejects: the .catch of the callback logs
autoCatch(a, i) ==
    [a EXCEPT !.sends[i].pc = "done", !.sends[i].failed = TRUE, !.sends[i].logged = TRUE]

\* mutant: a line that arrives while a dispatch has not returned is dropped
OnLineWhenIdle(cs, l, cyc) ==
    LET m == chatRegex(l.line) IN
    IF m.matched /\ \A i \in 1..Len(cs) : cs[i].pc = "done"
    THEN Append(cs, StartChat(Question(m.command), m.player, cyc, l.at))
    ELSE cs

\* the rl.on('line') handler for one line of cycle cyc
OnLine(cs, l, cyc) ==
    LET m == chatRegex(l.line) IN
    IF m.matched
    THEN Append(cs, StartChat(Question(m.command), m.player, cyc, l.at))
    ELSE cs

\* mutant: the lines of one 'data' event are handled last first
RECURSIVE OnLinesLastFirst(_, _, _)
OnLinesLastFirst(cs, lines, cyc) ==
    IF lines = <<>> THEN cs
    ELSE OnLinesLastFirst(OnLine(cs, lines[Len(lines)], cyc), SubSeq(lines, 1, Len(lines) - 1), cyc)

\* the handler applied to the lines of one 'data' event, in the order readline emits them
RECURSIVE OnLines(_, _, _)
OnLines(cs, lines, cyc) ==
    IF lines = <<>> THEN cs
    ELSE OnLines(OnLine(cs, Head(lines), cyc), Tail(lines), cyc)

Tag(lines, cyc, t) ==
    [i \in 1..Len(lines) |-> [line |-> lines[i].line, at |-> lines[i].at, cyc |-> cyc, t |-> t]]

\* ------------------------------------------------------------------ tailer
\* setupFileReading when statSync succeeds
SetupFileReading(tl) ==
    [tl EXCEPT !.fileStream = NewStream(tl.lastSize, ncyc + 1),
               !.lastSize = Len(file)]

\* setupFileReading when statSync throws: the streams are already destroyed
SetupThrows(tl) ==
    [tl EXCEPT !.fileStream = NoStream]

\* mutant: checkForChanges has no branch for a file smaller than the cursor
checkForChangesNoShrink(tl) ==
    IF ~exists THEN [tl EXCEPT !.check5 = @ + 1]
    ELSE IF Len(file) > tl.lastSize THEN SetupFileReading(tl)
    ELSE [tl EXCEPT !.check1 = @ + 1]

\* mutant: checkForChanges sets no timer when the size is unchanged
checkForChangesOnce(tl) ==
    IF ~exists THEN [tl EXCEPT !.check5 = @ + 1]
    ELSE IF Len(file) > tl.lastSize THEN SetupFileReading(tl)
    ELSE IF Len(file) < tl.lastSize
         THEN SetupFileReading([tl EXCEPT !.lastSize = 0,
                                          !.trunc = [cyc |-> ncyc + 1, content |-> file]])
    ELSE tl

checkForChanges(tl) ==
    IF ~exists THEN [tl EXCEPT !.check5 = @ + 1]
    ELSE IF Len(file) > tl.lastSize THEN SetupFileReading(tl)
    ELSE IF Len(file) < tl.lastSize
         THEN SetupFileReading([tl EXCEPT !.lastSize = 0,
                                          !.trunc = [cyc |-> ncyc + 1, content |-> file]])
    ELSE [tl EXCEPT !.check1 = @ + 1]

\* mutant: a restarted tailer starts at the beginning of the file
NewTailerFromStart ==
    SetupFileReading([lastSize |-> 0, fileStream |-> NoStream,
                      check1 |-> 0, check5 |-> 0, setup1 |-> 0, watching |-> TRUE,
                      trunc |-> NoTrunc, renamedAt |-> NotRenamed])

\* the tailer created by watchMinecraftLog (lines 111-113, 181, 197)
NewTailer ==
    SetupFileReading([lastSize |-> Len(file), fileStream |-> NoStream,
                      check1 |-> 0, check5 |-> 0, setup1 |-> 0, watching |-> TRUE,
                      trunc |-> NoTrunc, renamedAt |-> NotRenamed])

Cycles(tl) == IF tl.fileStream.cyc = ncyc + 1 THEN ncyc + 1 ELSE ncyc

Running == proc = "running"

Events == env.appends + env.truncs + env.outages + env.renames + env.errors

\* the environment may still act
Budget == Running /\ Events < MaxEvents

InitialFiles == {<<>>, <<"x", NL, "x", NL>>}
Chunks == {<<"x">>, <<NL>>, AskLine \o <<NL>>}

Init ==
    /\ file \in InitialFiles
    /\ exists = TRUE
    /\ startSize = Len(file)
    /\ ncyc = 1
    /\ tailers = <<[lastSize |-> Len(file), fileStream |-> NewStream(Len(file), 1),
                    check1 |-> 0, check5 |-> 0, setup1 |-> 0, watching |-> TRUE,
                    trunc |-> NoTrunc, renamedAt |-> NotRenamed]>>
    /\ restarts = 0
    /\ delivered = <<>>
    /\ chats = <<>>
    /\ proc = "running"
    /\ auto = [interval |-> TRUE, sends |-> <<>>]
    /\ env = [appends |-> 0, truncs |-> 0, outages |-> 0, renames |-> 0, errors |-> 0, calls |-> 0]

\* fs.watch callback, eventType 'change'
WatchChange(t) ==
    /\ Running
    /\ tailers[t].watching
    /\ Chains(tailers[t]) < MaxChains
    /\ tailers' = [tailers EXCEPT ![t] = checkForChanges(@)]
    /\ ncyc' = Cycles(tailers'[t])
    /\ UNCHANGED <<file, exists, startSize, restarts, delivered, chats, proc, env, auto>>

\* fs.watch callback, eventType 'rename'
WatchRename(t) ==
    /\ Running
    /\ tailers[t].watching
    /\ Chains(tailers[t]) < MaxChains
    /\ Budget
    /\ tailers' = [tailers EXCEPT ![t].lastSize = 0, ![t].setup1 = @ + 1,
                                 ![t].renamedAt = [seen |-> TRUE, n |-> Len(delivered)]]
    /\ env' = [env EXCEPT !.renames = @ + 1]
    /\ UNCHANGED <<file, exists, startSize, restarts, ncyc, delivered, chats, proc, auto>>

\* a timer set by setTimeout(checkForChanges, 1000) fires
TimerCheck1(t) ==
    /\ Running
    /\ tailers[t].check1 > 0
    /\ tailers' = [tailers EXCEPT ![t] = checkForChanges([@ EXCEPT !.check1 = @ - 1])]
    /\ ncyc' = Cycles(tailers'[t])
    /\ UNCHANGED <<file, exists, startSize, restarts, delivered, chats, proc, env, auto>>

\* a timer set by setTimeout(checkForChanges, 5000) fires
TimerCheck5(t) ==
    /\ Running
    /\ tailers[t].check5 > 0
    /\ tailers' = [tailers EXCEPT ![t] = checkForChanges([@ EXCEPT !.check5 = @ - 1])]
    /\ ncyc' = Cycles(tailers'[t])
    /\ UNCHANGED <<file, exists, startSize, restarts, delivered, chats, proc, env, auto>>

\* a timer set by setTimeout(setupFileReading, 1000) fires; an exception of
\* statSync is uncaught there, and the 'uncaughtException' handler exits
TimerSetup(t) ==
    /\ Running
    /\ tailers[t].setup1 > 0
    /\ LET tl == [tailers[t] EXCEPT !.setup1 = @ - 1] IN
       IF exists
       THEN /\ tailers' = [tailers EXCEPT ![t] = SetupFileReading(tl)]
            /\ ncyc' = ncyc + 1
            /\ proc' = proc
       ELSE /\ tailers' = [tailers EXCEPT ![t] = SetupThrows(tl)]
            /\ ncyc' = ncyc
            /\ proc' = "exited"
    /\ UNCHANGED <<file, exists, startSize, restarts, delivered, chats, env, auto>>

\* the read stream delivers a chunk: 'data', then readline's 'line' events
StreamData(t) ==
    LET tl == tailers[t]
        s == tl.fileStream
        n == Min(Len(file) - s.pos, HighWaterMark)
        r == Feed(<<>>, s.buf, s.pos - Len(s.buf), SubSeq(file, s.pos + 1, s.pos + n))
    IN
    /\ Running
    /\ s.live
    /\ s.opened \/ exists
    /\ s.pos < Len(file)
    /\ tailers' = [tailers EXCEPT ![t].fileStream =
                       [s EXCEPT !.pos = s.pos + n, !.opened = TRUE, !.buf = r.rest]]
    /\ delivered' = delivered \o Tag(r.lines, s.cyc, t)
    /\ chats' = OnLines(chats, r.lines, s.cyc)
    /\ UNCHANGED <<file, exists, startSize, restarts, ncyc, proc, env, auto>>

\* the read stream reaches the end of the file: readline's end handler, then
\* fileStream.on('end')
StreamEnd(t) ==
    LET tl == tailers[t]
        s == tl.fileStream
        ls == Flush(s.buf, s.pos - Len(s.buf))
    IN
    /\ Running
    /\ s.live
    /\ s.opened \/ exists
    /\ s.pos >= Len(file)
    /\ tailers' = [tailers EXCEPT ![t].fileStream = NoStream, ![t].check1 = @ + 1]
    /\ delivered' = delivered \o Tag(ls, s.cyc, t)
    /\ chats' = OnLines(chats, ls, s.cyc)
    /\ UNCHANGED <<file, exists, startSize, restarts, ncyc, proc, env, auto>>

\* the read stream cannot open the path: 'error' has no listener, the
\* 'uncaughtException' handler exits
StreamError(t) ==
    LET s == tailers[t].fileStream IN
    /\ Running
    /\ s.live
    /\ ~s.opened
    /\ ~exists
    /\ tailers' = [tailers EXCEPT ![t].fileStream = NoStream]
    /\ proc' = "exited"
    /\ UNCHANGED <<file, exists, startSize, restarts, ncyc, delivered, chats, env, auto>>

\* watcher.on('error'): the watcher is closed and watchMinecraftLog is
\* scheduled; the streams and timers of this tailer stay
WatcherError(t) ==
    /\ Budget
    /\ tailers[t].watching
    /\ env.errors < MaxRestarts
    /\ tailers' = [tailers EXCEPT ![t].watching = FALSE]
    /\ restarts' = restarts + 1
    /\ env' = [env EXCEPT !.errors = @ + 1]
    /\ UNCHANGED <<file, exists, startSize, ncyc, delivered, chats, proc, auto>>

\* the timer of watcher.on('error') fires: watchMinecraftLog; when the path
\* is missing its promise is rejected, which 'unhandledRejection' only logs
TimerRestart ==
    /\ Running
    /\ restarts > 0
    /\ restarts' = restarts - 1
    /\ IF exists
       THEN tailers' = Append(tailers, NewTailer) /\ ncyc' = ncyc + 1
       ELSE UNCHANGED <<tailers, ncyc>>
    /\ UNCHANGED <<file, exists, startSize, delivered, chats, proc, env, auto>>

\* ------------------------------------------------------------------ the server and the file system
AppendChunk(c) ==
    /\ Budget
    /\ exists
    /\ file' = file \o c
    /\ env' = [env EXCEPT !.appends = @ + 1]
    /\ UNCHANGED <<exists, startSize, tailers, restarts, ncyc, delivered, chats, proc, auto>>

Truncate(n) ==
    /\ Budget
    /\ exists
    /\ n < Len(file)
    /\ file' = SubSeq(file, 1, n)
    /\ env' = [env EXCEPT !.truncs = @ + 1]
    /\ UNCHANGED <<exists, startSize, tailers, restarts, ncyc, delivered, chats, proc, auto>>

PathGone ==
    /\ Budget
    /\ exists
    /\ exists' = FALSE
    /\ env' = [env EXCEPT !.outages = @ + 1]
    /\ UNCHANGED <<file, startSize, tailers, restarts, ncyc, delivered, chats, proc, auto>>

PathBack ==
    /\ Running
    /\ ~exists
    /\ exists' = TRUE
    /\ UNCHANGED <<file, startSize, tailers, restarts, ncyc, delivered, chats, proc, env, auto>>

\* ------------------------------------------------------------------ dispatch steps
\* a caller invokes handleMinecraftChat(question, player)
Questions == {<<"q">>, <<>>}
Players == {<<"A">>}

CallHandle(q, p) ==
    /\ Running
    /\ env.calls < MaxCalls
    /\ chats' = Append(chats, StartChat(q, p, 0, 0))
    /\ env' = [env EXCEPT !.calls = @ + 1]
    /\ UNCHANGED <<file, exists, startSize, tailers, restarts, ncyc, delivered, proc, auto>>

\* model.generateContent(question) resolves
GeminiResolves(i, a) ==
    /\ Running
    /\ chats[i].pc = "gemini"
    /\ chats' = [chats EXCEPT ![i] = askGeminiOk(@, a)]
    /\ UNCHANGED <<file, exists, startSize, tailers, restarts, ncyc, delivered, proc, env, auto>>

\* model.generateContent(question) rejects
GeminiRejects(i) ==
    /\ Running
    /\ chats[i].pc = "gemini"
    /\ chats' = [chats EXCEPT ![i] = askGeminiCatch(@)]
    /\ UNCHANGED <<file, exists, startSize, tailers, restarts, ncyc, delivered, proc, env, auto>>

\* Rcon.connect resolves: rcon.send(`say ${message}`) is issued
RconConnected(i) ==
    /\ Running
    /\ chats[i].pc = "connect"
    /\ chats' = [chats EXCEPT ![i].pc = "send"]
    /\ UNCHANGED <<file, exists, startSize, tailers, restarts, ncyc, delivered, proc, env, auto>>

\* rcon.send resolves: the server has the message; rcon.end() is issued
RconSent(i) ==
    /\ Running
    /\ chats[i].pc = "send"
    /\ chats' = [chats EXCEPT ![i].pc = "end",
                              ![i].said = Append(@, chats[i].sends[Len(chats[i].sends)])]
    /\ UNCHANGED <<file, exists, startSize, tailers, restarts, ncyc, delivered, proc, env, auto>>

\* rcon.end resolves: sendRconMessage returns, handleMinecraftChat returns
RconEnded(i) ==
    /\ Running
    /\ chats[i].pc = "end"
    /\ chats' = [chats EXCEPT ![i].pc = "done", ![i].outcome = "resolved"]
    /\ UNCHANGED <<file, exists, startSize, tailers, restarts, ncyc, delivered, proc, env, auto>>

\* Rcon.connect, rcon.send or rcon.end rejects
RconRejects(i) ==
    /\ Running
    /\ chats[i].pc \in {"connect", "send", "end"}
    /\ chats' = [chats EXCEPT ![i] = handleChatCatch(@)]
    /\ UNCHANGED <<file, exists, startSize, tailers, restarts, ncyc, delivered, proc, env, auto>>

\* ------------------------------------------------------------------ the line handler alone
\* the lines handed to the handler: a record prefix (well-formed, without
\* the header, with an empty player name, without the space after the
\* name) followed by a message
LinePrefixes ==
    {<<Hdr, "<", "A", ">", " ">>, <<"<", "A", ">", " ">>, <<Hdr, "<", ">", " ">>, <<Hdr, "<", "A", ">">>}
LineMessages ==
    {Trigger \o m : m \in {<<>>, <<" ">>, <<"q">>, <<" ", "q">>, <<" ", " ">>, <<" ", "q", " ">>}}
        \cup {<<>>, <<"q">>, <<" ">> \o Trigger \o <<" ", "q">>}
Lines == {p \o m : p \in LinePrefixes, m \in LineMessages}

\* readline emits 'line' with the text l: the handler of lines 139-157 runs
LineEvent(l) ==
    LET ln == [line |-> l, at |-> env.calls] IN
    /\ Running
    /\ env.calls < MaxCalls
    /\ delivered' = delivered \o Tag(<<ln>>, 1, 1)
    /\ chats' = OnLines(chats, <<ln>>, 1)
    /\ env' = [env EXCEPT !.calls = @ + 1]
    /\ UNCHANGED <<file, exists, startSize, tailers, restarts, ncyc, proc, auto>>

\* ------------------------------------------------------------------ broadcast steps
\* the interval set by main fires
AutoTick ==
    /\ Running
    /\ auto.interval
    /\ Len(auto.sends) < MaxTicks
    /\ auto' = autoTick(auto)
    /\ UNCHANGED <<file, exists, startSize, tailers, restarts, ncyc, delivered, chats, proc, env>>

\* Rcon.connect of a broadcast resolves: rcon.send is issued
AutoConnected(i) ==
    /\ Running
    /\ auto.sends[i].pc = "connect"
    /\ auto' = [auto EXCEPT !.sends[i].pc = "send"]
    /\ UNCHANGED <<file, exists, startSize, tailers, restarts, ncyc, delivered, chats, proc, env>>

\* rcon.send of a broadcast resolves: the server has the message
AutoSent(i) ==
    /\ Running
    /\ auto.sends[i].pc = "send"
    /\ auto' = [auto EXCEPT !.sends[i].pc = "end", !.sends[i].said = auto.sends[i].sends]
    /\ UNCHANGED <<file, exists, startSize, tailers, restarts, ncyc, delivered, chats, proc, env>>

\* rcon.end of a broadcast resolves: sendRconMessage returns
AutoEnded(i) ==
    /\ Running
    /\ auto.sends[i].pc = "end"
    /\ auto' = [auto EXCEPT !.sends[i].pc = "done"]
    /\ UNCHANGED <<file, exists, startSize, tailers, restarts, ncyc, delivered, chats, proc, env>>

\* Rcon.connect, rcon.send or rcon.end of a broadcast rejects
AutoRejects(i) ==
    /\ Running
    /\ auto.sends[i].pc \in {"connect", "send", "end"}
    /\ auto' = autoCatch(auto, i)
    /\ UNCHANGED <<file, exists, startSize, tailers, restarts, ncyc, delivered, chats, proc, env>>

\* ------------------------------------------------------------------ specifications
\* one tailer, the server and the file system
Next ==
    \/ \E t \in 1..Len(tailers) : WatchChange(t)
    \/ \E t \in 1..Len(tailers) : WatchRename(t)
    \/ \E t \in 1..Len(tailers) : TimerCheck1(t)
    \/ \E t \in 1..Len(tailers) : TimerCheck5(t)
    \/ \E t \in 1..Len(tailers) : TimerSetup(t)
    \/ \E t \in 1..Len(tailers) : StreamData(t)
    \/ \E t \in 1..Len(tailers) : StreamEnd(t)
    \/ \E t \in 1..Len(tailers) : StreamError(t)
    \/ \E c \in Chunks : AppendChunk(c)
    \/ \E n \in 0..Len(file) : Truncate(n)
    \/ PathGone
    \/ PathBack

Spec == Init /\ [][Next]_vars

\* the tailers under watcher errors, on a file to which the server only
\* appends complete chat lines
NextRestart ==
    \/ \E t \in 1..Len(tailers) : WatchChange(t)
    \/ \E t \in 1..Len(tailers) : WatchRename(t)
    \/ \E t \in 1..Len(tailers) : TimerCheck1(t)
    \/ \E t \in 1..Len(tailers) : TimerSetup(t)
    \/ \E t \in 1..Len(tailers) : StreamData(t)
    \/ \E t \in 1..Len(tailers) : StreamEnd(t)
    \/ \E t \in 1..Len(tailers) : WatcherError(t)
    \/ TimerRestart
    \/ AppendChunk(AskLine \o <<NL>>)

SpecRestart == Init /\ [][NextRestart]_vars

\* handleMinecraftChat called directly
NextChat ==
    \/ \E q \in Questions, p \in Players : CallHandle(q, p)
    \/ \E i \in 1..Len(chats), a \in Answers : GeminiResolves(i, a)
    \/ \E i \in 1..Len(chats) : GeminiRejects(i)
    \/ \E i \in 1..Len(chats) : RconConnected(i)
    \/ \E i \in 1..Len(chats) : RconSent(i)
    \/ \E i \in 1..Len(chats) : RconEnded(i)
    \/ \E i \in 1..Len(chats) : RconRejects(i)

SpecChat == Init /\ [][NextChat]_vars

\* the line handler on every line of Lines
NextMatch == \E l \in Lines : LineEvent(l)

SpecMatch == Init /\ [][NextMatch]_vars

\* the broadcast of main beside one tailer on a file to which the server
\* only appends complete chat lines
NextAuto ==
    \/ AutoTick
    \/ \E i \in 1..Len(auto.sends) : AutoConnected(i)
    \/ \E i \in 1..Len(auto.sends) : AutoSent(i)
    \/ \E i \in 1..Len(auto.sends) : AutoEnded(i)
    \/ \E i \in 1..Len(auto.sends) : AutoRejects(i)
    \/ \E t \in 1..Len(tailers) : TimerCheck1(t)
    \/ \E t \in 1..Len(tailers) : StreamData(t)
    \/ \E t \in 1..Len(tailers) : StreamEnd(t)
    \/ AppendChunk(AskLine \o <<NL>>)

SpecAuto == Init /\ [][NextAuto]_vars

\* one tailer on a file to which the server only appends complete chat
\* lines, with the dispatches it starts
NextE2E ==
    \/ \E t \in 1..Len(tailers) : WatchChange(t)
    \/ \E t \in 1..Len(tailers) : TimerCheck1(t)
    \/ \E t \in 1..Len(tailers) : StreamData(t)
    \/ \E t \in 1..Len(tailers) : StreamEnd(t)
    \/ AppendChunk(AskLine \o <<NL>>)
    \/ \E i \in 1..Len(chats), a \in Answers : GeminiResolves(i, a)
    \/ \E i \in 1..Len(chats) : RconConnected(i)
    \/ \E i \in 1..Len(chats) : RconSent(i)
    \/ \E i \in 1..Len(chats) : RconEnded(i)

SpecE2E == Init /\ [][NextE2E]_vars

\* ------------------------------------------------------------------ properties
\* the file has only been appended to since startup
AppendOnly == env.truncs = 0

\* no truncation and no rotation was signalled or made since startup
NoRotation == env.truncs = 0 /\ env.renames = 0

\* the character after the characters of a delivered line is a newline of the file
Terminated(d) ==
    /\ d.at + Len(d.line) < Len(file)
    /\ file[d.at + Len(d.line) + 1] = NL

\* C1: while the file is only appended to, every line delivered to the line
\* handler is followed by its newline in the file: no fragment without a
\* terminating newline is delivered as a line
C1_NoFragmentDelivered ==
    AppendOnly => \A i \in 1..Len(delivered) : Terminated(delivered[i])

\* the texts of a sequence of line events
LineTexts(ds) == [i \in 1..Len(ds) |-> ds[i].line]

\* what one read cycle that starts at the startup offset delivers when
\* bytes is there in one piece: one 'data' event, then the end of the stream
InOnePiece(bytes) ==
    LET r == Feed(<<>>, <<>>, startSize, bytes) IN
    LineTexts(r.lines \o Flush(r.rest, startSize))

\* the file was only appended to, no rotation was signalled, the path never failed
Undisturbed == NoRotation /\ env.outages = 0 /\ Running

\* the tailer has no read cycle in progress and its cursor is at the end of the file
CaughtUp(tl) == ~tl.fileStream.live /\ tl.lastSize = Len(file)

\* C2: chunking-invariance: once the tailer has caught up with an undisturbed
\* file, the lines delivered are those that one read cycle delivers when all
\* bytes appended since startup are there in one piece
C2_ChunkingInvariance ==
    (Undisturbed /\ CaughtUp(tailers[1])) =>
        LineTexts(delivered) = InOnePiece(SubSeq(file, startSize + 1, Len(file)))

\* C3: on an undisturbed file no complete line is delivered twice
C3_AtMostOnce ==
    Undisturbed =>
        \A i \in 1..Len(delivered), j \in 1..Len(delivered) :
            (i < j /\ Terminated(delivered[i])) =>
                ~(delivered[i].at = delivered[j].at /\ delivered[i].line = delivered[j].line)

Max(S) == CHOOSE m \in S : \A n \in S : n <= m

\* the indices of the newlines of the file
Newlines == {p \in 1..Len(file) : file[p] = NL}

\* the offset of the first character of the line that the newline at index p ends
LineAt(p) == Max({q \in Newlines : q < p} \cup {0})

\* C4: on an undisturbed file, when no read cycle is in progress, every
\* complete line that was appended after startup and that the cursor
\* has passed has been delivered
C4_NoSkipping ==
    Undisturbed =>
        \A t \in 1..Len(tailers) :
            ~tailers[t].fileStream.live =>
                \A p \in Newlines :
                    (LineAt(p) >= startSize /\ p <= tailers[t].lastSize) =>
                        \E i \in 1..Len(delivered) :
                            /\ delivered[i].at = LineAt(p)
                            /\ delivered[i].line = SubSeq(file, LineAt(p) + 1, p - 1)

IsChatLine(d) == chatRegex(d.line).matched

\* the read cycle and the file offset of the line of each element of a sequence
Keys(ds) == [i \in 1..Len(ds) |-> <<ds[i].cyc, ds[i].at>>]

\* C5: the lines of one read cycle are delivered in file order, the lines
\* that match are the ones dispatched, and the dispatches of one read cycle
\* are started (handleMinecraftChat entered, the completion call issued) in
\* the file order of their lines
C5_FileOrder ==
    /\ \A i \in 1..Len(delivered), j \in 1..Len(delivered) :
           (i < j /\ delivered[i].cyc = delivered[j].cyc) => delivered[i].at < delivered[j].at
    /\ \A i \in 1..Len(chats), j \in 1..Len(chats) :
           (i < j /\ chats[i].cyc = chats[j].cyc) => chats[i].at < chats[j].at
    /\ Keys(chats) = Keys(SelectSeq(delivered, IsChatLine))

\* two matching lines of one read cycle have been delivered and dispatched
C5_Witness ==
    \E i \in 1..Len(chats), j \in 1..Len(chats) :
        /\ i < j
        /\ chats[i].cyc = chats[j].cyc
        /\ chats[i].pc = "gemini"
        /\ chats[j].pc = "gemini"

\* the complete lines of a text, each with the offset of its first character
CompleteLines(text) == Feed(<<>>, <<>>, 0, text).lines

\* C6: a truncation that checkForChanges detects (the only truncation, on a
\* path that never failed and was never signalled as renamed) leaves the
\* process running, starts a read cycle at byte 0, and once that cycle is
\* over every complete line of the content seen at the detection has been
\* delivered
C6_Truncation ==
    \A t \in 1..Len(tailers) :
        LET tl == tailers[t]
            tr == tl.trunc
        IN
        (tr.cyc > 0 /\ env.truncs = 1 /\ env.renames = 0 /\ env.outages = 0) =>
            /\ Running
            /\ tl.fileStream.cyc = tr.cyc => tl.fileStream.start = 0
            /\ tl.fileStream.cyc # tr.cyc =>
                   \A k \in 1..Len(CompleteLines(tr.content)) :
                       \E i \in 1..Len(delivered) :
                           /\ delivered[i].cyc >= tr.cyc
                           /\ delivered[i].at = CompleteLines(tr.content)[k].at
                           /\ delivered[i].line = CompleteLines(tr.content)[k].line

\* C7: while the file is neither truncated nor replaced, no line event
\* starts in the part of the file that was there at startup
C7_NoHistoryReplay ==
    AppendOnly => \A i \in 1..Len(delivered) : delivered[i].at >= startSize

\* C7, amended: while the file is neither truncated nor replaced and no
\* 'rename' notification was delivered, no line event starts in the part of
\* the file that was there at startup
C7_NoReplayWithoutRename ==
    NoRotation => \A i \in 1..Len(delivered) : delivered[i].at >= startSize

\* a file with history, a watcher error and a restart, no 'rename'
\* notification, and both tailers have delivered a line
C7_Witness ==
    /\ startSize > 0
    /\ Len(tailers) = 2
    /\ NoRotation
    /\ \E i \in 1..Len(delivered), j \in 1..Len(delivered) :
           delivered[i].t = 1 /\ delivered[j].t = 2

\* a step of tailer t that stats or opens the path while it is unavailable
FailingStep(t) ==
    /\ ~exists
    /\ \/ WatchChange(t)
       \/ TimerCheck1(t)
       \/ TimerCheck5(t)
       \/ TimerSetup(t)
       \/ StreamError(t)

\* C8: a tailer step whose stat or open of the path fails leaves the
\* process running, with a 5 second retry of checkForChanges pending
C8_FailureNotFatal ==
    [][\A t \in 1..Len(tailers) :
          FailingStep(t) => (proc' = "running" /\ tailers'[t].check5 >= 1)]_vars

\* C9: a dispatch whose completion-service call failed has made exactly one
\* call of sendRconMessage, with the fallback text addressed to the player,
\* and handleMinecraftChat does not reject
C9_FallbackSent ==
    \A i \in 1..Len(chats) :
        chats[i].apiFailed =>
            /\ chats[i].sends = <<FormatResponse(chats[i].player, FallbackText)>>
            /\ chats[i].outcome # "rejected"
            /\ chats[i].pc = "done" => chats[i].outcome = "resolved"

\* a dispatch whose completion-service call failed has returned, in one
\* case after the remote console took the message, in another after it failed
C9_Witness ==
    \E i \in 1..Len(chats), j \in 1..Len(chats) :
        /\ chats[i].apiFailed /\ chats[i].pc = "done" /\ ~chats[i].rconFailed
        /\ chats[j].apiFailed /\ chats[j].pc = "done" /\ chats[j].rconFailed

\* C10: a finished dispatch has resolved and made at least one call of
\* sendRconMessage, and when either external call failed one of its calls
\* carried the fallback reply
C10_FallbackOnEitherFailure ==
    \A i \in 1..Len(chats) :
        chats[i].pc = "done" =>
            /\ chats[i].outcome = "resolved"
            /\ Len(chats[i].sends) >= 1
            /\ (chats[i].apiFailed \/ chats[i].rconFailed) =>
                   \E k \in 1..Len(chats[i].sends) :
                       chats[i].sends[k] = FormatResponse(chats[i].player, FallbackText)

\* the dispatches started for the delivered line d
ChatsOf(d) == {i \in 1..Len(chats) : chats[i].cyc = d.cyc /\ chats[i].at = d.at}

\* C11: when the server appended exactly one chat line ("<A> !ask q") and
\* the external calls succeed, a read cycle makes at most one completion
\* call; each read cycle that delivered the line made exactly one, with the
\* prompt "q"; the dispatch has sent nothing while that call is pending and
\* afterwards has made exactly one call of sendRconMessage, with the text
\* "[To A] " followed by the answer, which is what the server is told
C11_EndToEnd ==
    env.appends = 1 =>
        /\ \A c \in 1..(ncyc + 1) :
               Cardinality({i \in 1..Len(chats) : chats[i].cyc = c}) <= 1
        /\ \A k \in 1..Len(delivered) :
               delivered[k].line = AskLine =>
                   /\ Cardinality(ChatsOf(delivered[k])) = 1
                   /\ \A i \in ChatsOf(delivered[k]) :
                          chats[i].question = <<"q">> /\ chats[i].player = <<"A">>
        /\ \A i \in 1..Len(chats) :
               /\ \E k \in 1..Len(delivered) :
                      delivered[k].line = AskLine /\ i \in ChatsOf(delivered[k])
               /\ chats[i].pc = "gemini" => chats[i].sends = <<>>
               /\ chats[i].pc # "gemini" =>
                      \E a \in Answers : chats[i].sends = << <<"[To ", "A", "] ">> \o a >>
               /\ chats[i].said = IF chats[i].pc \in {"end", "done"} THEN chats[i].sends ELSE <<>>

\* the one appended chat line was read in one cycle and its dispatch has
\* returned after the server took the reply
C11_Witness ==
    /\ env.appends = 1
    /\ Len(chats) = 1
    /\ chats[1].pc = "done"
    /\ chats[1].said = << <<"[To ", "A", "] ", "4">> >>
    /\ \A t \in 1..Len(tailers) : ~tailers[t].fileStream.live

\* C12: whatever dispatches are awaiting the completion service or the
\* remote console, the events of a tailer stay enabled (a live stream that
\* has read the whole file ends and schedules the next recheck, a pending
\* recheck timer fires, a change notification is handled), and every
\* matching line that was delivered has had its dispatch started, whether
\* or not earlier dispatches had returned
C12_TailerNeverWaits ==
    /\ \A t \in 1..Len(tailers) :
           LET tl == tailers[t] IN
           Running =>
               /\ (tl.fileStream.live /\ tl.fileStream.pos >= Len(file)) => ENABLED StreamEnd(t)
               /\ tl.check1 > 0 => ENABLED TimerCheck1(t)
               /\ (tl.watching /\ Chains(tl) < MaxChains) => ENABLED WatchChange(t)
    /\ Keys(chats) = Keys(SelectSeq(delivered, IsChatLine))

\* three dispatches are in flight at once: two started for successive lines
\* of one read cycle, the first still awaiting the completion service, and
\* one started by a later read cycle
C12_Witness ==
    \E i \in 1..Len(chats), j \in 1..Len(chats), k \in 1..Len(chats) :
        /\ chats[i].pc = "gemini"
        /\ chats[j].pc # "done"
        /\ chats[j].cyc = chats[i].cyc
        /\ chats[j].at > chats[i].at
        /\ chats[k].pc # "done"
        /\ chats[k].cyc > chats[i].cyc

\* C13: while the process runs the interval of main stays set, so that its
\* next firing is enabled whatever the tailer and the earlier broadcasts
\* are doing; each firing makes one call of sendRconMessage with the
\* broadcast text; a broadcast whose send failed has been logged and has
\* left the process running
C13_BroadcastKeepsFiring ==
    /\ Running => auto.interval
    /\ (Running /\ Len(auto.sends) < MaxTicks) => ENABLED AutoTick
    /\ \A i \in 1..Len(auto.sends) :
           /\ auto.sends[i].sends = <<AutoMessage>>
           /\ auto.sends[i].failed => (auto.sends[i].logged /\ Running)

\* the interval fired again after a broadcast failed and while the tailer
\* was in a read cycle that had delivered a line
C13_Witness ==
    /\ Len(auto.sends) >= 2
    /\ auto.sends[1].failed
    /\ auto.sends[2].pc = "done"
    /\ auto.sends[2].said = <<AutoMessage>>
    /\ Len(delivered) >= 1

\* the player and the message of a line that is a chat record
ChatRecord(line) ==
    LET k == WordEnd(line, 3) IN
    IF /\ Len(line) >= k + 1
       /\ k >= 4
       /\ line[1] = Hdr
       /\ line[2] = "<"
       /\ line[k] = ">"
       /\ line[k + 1] = " "
    THEN [ok |-> TRUE, actor |-> SubSeq(line, 3, k - 1), msg |-> SubSeq(line, k + 2, Len(line))]
    ELSE [ok |-> FALSE]

\* the message is the trigger, then whitespace, then text that is not empty
\* once trimmed
IsAsk(msg) ==
    /\ Len(msg) > Len(Trigger)
    /\ SubSeq(msg, 1, Len(Trigger)) = Trigger
    /\ msg[Len(Trigger) + 1] \in Spaces
    /\ Trim(SubSeq(msg, Len(Trigger) + 1, Len(msg))) # <<>>

\* C14: the handler leaves the process running, and it calls
\* handleMinecraftChat exactly for the lines that are chat records whose
\* message is the trigger followed by whitespace and by text that is not
\* empty once trimmed, with the player of the record and with that trimmed
\* text, both non-empty; every other line (the trigger alone, the trigger
\* and whitespace, the trigger as the beginning of a longer word, a
\* malformed record) starts no dispatch
C14_MatcherEvents ==
    /\ Running
    /\ \A k \in 1..Len(delivered) :
           LET r == ChatRecord(delivered[k].line)
               evs == ChatsOf(delivered[k])
           IN
           IF r.ok /\ IsAsk(r.msg)
           THEN /\ Cardinality(evs) = 1
                /\ \A i \in evs :
                       /\ chats[i].player = r.actor
                       /\ chats[i].player # <<>>
                       /\ chats[i].question = Trim(SubSeq(r.msg, Len(Trigger) + 1, Len(r.msg)))
                       /\ chats[i].question # <<>>
           ELSE evs = {}

\* the deliveries, after the 'rename' notification of tailer t, of the line l
DeliveriesSince(t, l) ==
    {k \in (tailers[t].renamedAt.n + 1)..Len(delivered) :
        delivered[k].at = l.at /\ delivered[k].line = l.line}

\* C15: after a 'rename' notification (the only one, on a path that never
\* failed and whose content was never cut) the process keeps running, and
\* once the delayed setupFileReading has run, its read cycle is over and
\* the cursor is at the end of the file, every complete line of the file
\* has been delivered exactly once since the notification
C15_RenameRereads ==
    \A t \in 1..Len(tailers) :
        LET tl == tailers[t] IN
        (tl.renamedAt.seen /\ env.renames = 1 /\ env.outages = 0 /\ env.truncs = 0) =>
            /\ Running
            /\ (tl.setup1 = 0 /\ ~tl.fileStream.live /\ tl.lastSize = Len(file)) =>
                   \A i \in 1..Len(CompleteLines(file)) :
                       Cardinality(DeliveriesSince(t, CompleteLines(file)[i])) = 1

\* C16: while the process runs, every tailer has an active read stream or
\* at least one pending timer (checkForChanges after 1 s or 5 s,
\* setupFileReading after 1 s), so a read cycle starts without any
\* notification of the watcher
C16_PollingFallback ==
    Running =>
        \A t \in 1..Len(tailers) :
            \/ tailers[t].fileStream.live
            \/ tailers[t].check1 + tailers[t].check5 + tailers[t].setup1 > 0

\* the file has grown past the cursor while no stream is active and the
\* only pending timer is the 1 s recheck set by the end of the last stream
C16_Witness ==
    \E t \in 1..Len(tailers) :
        /\ Running
        /\ ~tailers[t].fileStream.live
        /\ tailers[t].check1 = 1
        /\ tailers[t].check5 = 0
        /\ tailers[t].setup1 = 0
        /\ Len(file) > tailers[t].lastSize
        /\ Len(delivered) > 0

\* the step is the 'rename' branch of the watcher callback of tailer t
RenameStep(t) ==
    /\ env'.renames = env.renames + 1
    /\ tailers'[t].setup1 = tailers[t].setup1 + 1

\* the step is a run of checkForChanges by tailer t that finds the file
\* smaller than the cursor
ShrinkSeenStep(t) ==
    /\ exists
    /\ Len(file) < tailers[t].lastSize
    /\ tailers'[t].setup1 = tailers[t].setup1
    /\ tailers'[t].trunc.cyc = ncyc + 1

\* C17: a step that moves the cursor of a tailer backward is a 'rename'
\* notification or a run of checkForChanges that finds the file smaller
\* than the cursor
C17_CursorMonotone ==
    [][\A t \in 1..Len(tailers) :
           tailers'[t].lastSize < tailers[t].lastSize => (RenameStep(t) \/ ShrinkSeenStep(t))]_vars

\* the step completes a run of setupFileReading by tailer t
SetupDoneStep(t) ==
    /\ ncyc' = ncyc + 1
    /\ tailers'[t].fileStream.live
    /\ tailers'[t].fileStream.cyc = ncyc'

\* the step is a run of checkForChanges by tailer t that stats the file and
\* only sets the 1 s recheck timer
UnchangedSeenStep(t) ==
    /\ exists
    /\ tailers'[t].fileStream = tailers[t].fileStream
    /\ tailers'[t].lastSize = tailers[t].lastSize
    /\ \/ tailers'[t].check1 = tailers[t].check1 + 1
       \/ tailers'[t].check5 = tailers[t].check5 - 1

\* C18: after a completed setupFileReading, after a checkForChanges that
\* found the size unchanged, and after the cursor reset of a 'rename'
\* notification, the cursor is not beyond the size of the file at that step
C18_CursorWithinFile ==
    [][\A t \in 1..Len(tailers) :
           (SetupDoneStep(t) \/ UnchangedSeenStep(t) \/ RenameStep(t)) =>
               tailers'[t].lastSize <= Len(file)]_vars

\* a tailer whose cursor was beyond the end of a truncated file has run
\* checkForChanges, and the read cycle it started at 0 is over with the
\* cursor at the size of the file
C18_Witness ==
    \E t \in 1..Len(tailers) :
        /\ env.truncs > 0
        /\ tailers[t].trunc.cyc > 0
        /\ ~tailers[t].fileStream.live
        /\ tailers[t].lastSize = Len(file)
        /\ tailers[t].check1 > 0

\* C19: a tailer has at most one pending checkForChanges timer
C19_OnePollChain ==
    \A t \in 1..Len(tailers) : tailers[t].check1 + tailers[t].check5 <= 1

\* the line that the newline at index p of the file ends has been delivered
\* by tailers i and j
DeliveredByBoth(p, i, j) ==
    /\ \E k \in 1..Len(delivered) : delivered[k].at = LineAt(p) /\ delivered[k].t = i
    /\ \E k \in 1..Len(delivered) : delivered[k].at = LineAt(p) /\ delivered[k].t = j

\* C20: at most one tailer has an active stream or a pending timer, and no
\* line of the file is delivered by two tailers
C20_OneTailer ==
    /\ Cardinality({t \in 1..Len(tailers) :
           tailers[t].fileStream.live
               \/ tailers[t].check1 + tailers[t].check5 + tailers[t].setup1 > 0}) <= 1
    /\ \A p \in Newlines : \A i \in 1..Len(tailers), j \in 1..Len(tailers) :
           DeliveredByBoth(p, i, j) => i = j

====
